---- MODULE Spec2Model ----
(***************************************************************************)
(* Weekly meal planner (Cardapio-Dom).                                     *)
(*                                                                         *)
(* meal_planner_email_fast.py  : cache-or-scrape URL discovery, concurrent *)
(*                               fetch/parse of 5 recipes, ingredient      *)
(*                               deduplication, message composition, send. *)
(* meal_planner_email_static.py: the static-catalog variant.               *)
(*                                                                         *)
(* Text is modelled as a sequence of one-character strings, so that        *)
(* str.strip(), str.lower() and string comparison are computed.            *)
(***************************************************************************)
EXTENDS Integers, Sequences, FiniteSets, TLC

\* Number of recipes of a menu: the 5 of lines 127 and 131 (fast) and of
\* lines 52 and 58 (static).
MENU_SIZE == 5

\* ------------------------------------------------------------------ text

Alphabet == {" ", "A", "B", "a", "b"}

\* Unicode code point of a character (Python compares str by code point).
Ord(c) ==
    CASE c = " " -> 32
      [] c = "A" -> 65
      [] c = "B" -> 66
      [] c = "a" -> 97
      [] c = "b" -> 98

\* str.lower() on one character.
LowerChar(c) ==
    CASE c = "A" -> "a"
      [] c = "B" -> "b"
      [] OTHER -> c

\* str.lower()
Lower(s) == [i \in 1..Len(s) |-> LowerChar(s[i])]

SetMin(S) == CHOOSE x \in S : \A y \in S : x <= y
SetMax(S) == CHOOSE x \in S : \A y \in S : x >= y

\* str.strip(): leading and trailing whitespace removed.
Strip(s) ==
    LET keep == {i \in 1..Len(s) : s[i] # " "}
    IN  IF keep = {} THEN <<>> ELSE SubSeq(s, SetMin(keep), SetMax(keep))

\* Python's s < t on str: lexicographic by code point, a proper prefix is less.
StrLess(s, t) ==
    \E i \in 1..(Len(t)) :
        /\ \A j \in 1..(i - 1) : j <= Len(s) /\ s[j] = t[j]
        /\ i - 1 <= Len(s)
        /\ (i > Len(s) \/ Ord(s[i]) < Ord(t[i]))

\* A sort that compares the strings themselves.
SortKey_CaseSensitive(s) == s

\* The sort key of sorted(..., key=lambda s: s.lower()), line 151.
SortKey(s) == Lower(s)

\* Stable insertion of x into a list sorted by SortKey (sorted() is stable).
RECURSIVE InsertSorted(_, _)
InsertSorted(x, sorted) ==
    IF sorted = <<>> THEN <<x>>
    ELSE IF StrLess(SortKey(x), SortKey(Head(sorted)))
         THEN <<x>> \o sorted
         ELSE <<Head(sorted)>> \o InsertSorted(x, Tail(sorted))

\* sorted(values, key=lambda s: s.lower())
RECURSIVE SortedByKey(_)
SortedByKey(values) ==
    IF values = <<>> THEN <<>>
    ELSE InsertSorted(values[Len(values)], SortedByKey(SubSeq(values, 1, Len(values) - 1)))

\* ------------------------------------------------- ingredient deduplication

\* key = item.strip().lower(), line 148
NormKey(item) == Lower(Strip(item))

\* The loop of lines 146-150: the dict `normalized`, as its insertion-ordered
\* list of [key, val] pairs; the first value seen for a key is kept.
RECURSIVE normalized(_)
normalized(items) ==
    IF items = <<>> THEN <<>>
    ELSE LET init == normalized(SubSeq(items, 1, Len(items) - 1))
             item == items[Len(items)]
             key  == NormKey(item)
         IN  IF \E i \in 1..Len(init) : init[i].key = key
             THEN init
             ELSE Append(init, [key |-> key, val |-> Strip(item)])

DictValues(d) == [i \in 1..Len(d) |-> d[i].val]

\* Lines 146-151 of build_menu: the shopping list.
Dedupe(all_ingredients) == SortedByKey(DictValues(normalized(all_ingredients)))

\* ------------------------------------------------------------ recipe pages

\* An optional value is a sequence of length 0 (None / absent) or 1.
None == <<>>
Some(x) == <<x>>

DOMAIN_HOST == "https://www.panelinha.com.br"

\* An absolute recipe URL f"https://www.panelinha.com.br/receita/{slug}".
RecipeUrl(slug) == [host |-> DOMAIN_HOST, section |-> "receita", slug |-> slug]

\* The content of <script id="js_recipe_schema">, by what json.loads makes of it:
\*   absent    no such tag                      (script_tag is None)
\*   empty     a tag without a string           (script_tag.string is falsy)
\*   invalid   text that is not JSON            (json.JSONDecodeError)
\*   nonobject valid JSON that is not an object (a list, a number, null, a string)
\*   object    a JSON object; name and recipeIngredient are optional keys,
\*             recipeIngredient a list of strings
ScriptAbsent    == [kind |-> "absent",    name |-> None, ingr |-> None]
ScriptEmpty     == [kind |-> "empty",     name |-> None, ingr |-> None]
ScriptInvalid   == [kind |-> "invalid",   name |-> None, ingr |-> None]
ScriptNonObject == [kind |-> "nonobject", name |-> None, ingr |-> None]
ScriptObject(name, ingr) == [kind |-> "object", name |-> name, ingr |-> ingr]

\* Elements of the page body, in document order.
Heading(text_has_ingrediente) == [tag |-> "h", ingrediente |-> text_has_ingrediente, items |-> <<>>]
UList(items) == [tag |-> "ul", ingrediente |-> FALSE, items |-> items]

\* li.get_text(strip=True) of every li of a list, empty texts dropped
\* (lines 108-111 and 113-116).
RECURSIVE ListItems(_)
ListItems(items) ==
    IF items = <<>> THEN <<>>
    ELSE LET text == Strip(Head(items))
         IN  (IF text # <<>> THEN <<text>> ELSE <<>>) \o ListItems(Tail(items))

\* h.find_next("ul"): the first ul after position i of the body, if any.
FindNextUl(body, i) ==
    LET later == {j \in (i + 1)..Len(body) : body[j].tag = "ul"}
    IN  IF later = {} THEN None ELSE Some(body[SetMin(later)])

\* Lines 104-111: for every heading whose text contains "Ingrediente", the
\* items of the next ul.
RECURSIVE HeadingItems(_, _)
HeadingItems(body, i) ==
    IF i > Len(body) THEN <<>>
    ELSE LET ul == FindNextUl(body, i)
             here == IF body[i].tag = "h" /\ body[i].ingrediente /\ ul # None
                     THEN ListItems(ul[1].items)
                     ELSE <<>>
         IN  here \o HeadingItems(body, i + 1)

\* Lines 113-116: every li of the page.
RECURSIVE AllListItems(_, _)
AllListItems(body, i) ==
    IF i > Len(body) THEN <<>>
    ELSE (IF body[i].tag = "ul" THEN ListItems(body[i].items) ELSE <<>>)
         \o AllListItems(body, i + 1)

\* Lines 103-116: the two HTML fallbacks, tried when the script gave nothing.
HtmlIngredients(body) ==
    LET byHeading == HeadingItems(body, 1)
    IN  IF byHeading # <<>> THEN byHeading ELSE AllListItems(body, 1)

\* A recipe name: the text of the name, or the URL when the page has no title
\* and no structured name (line 93).
NameText(text) == [text |-> text, url |-> None]
NameUrl(url) == [text |-> <<>>, url |-> Some(url)]

Raised(err) == [ok |-> FALSE, err |-> err, name |-> NameText(<<>>), ingredients |-> <<>>]
Returned(name, ingredients) == [ok |-> TRUE, err |-> "", name |-> name, ingredients |-> ingredients]

\* Lines 96-102: what the structured-data block gives.  data.get(...) on a value
\* that is not a dict raises AttributeError, which line 101 does not catch.
ScriptRaises(script) == script.kind = "nonobject"

\* parse_recipe(url) on the response `page` (lines 89-117).
parse_recipe(url, page) ==
    IF page.status # "ok" THEN Raised("HTTPError")
    ELSE
    LET title_name == IF page.title # None THEN NameText(Strip(page.title[1])) ELSE NameUrl(url)
        script == page.script
        recipe_name == IF script.kind = "object" /\ script.name # None
                       THEN NameText(script.name[1]) ELSE title_name
        from_script == IF script.kind = "object" /\ script.ingr # None
                       THEN script.ingr[1] ELSE <<>>
        ingredients == IF from_script # <<>> THEN from_script ELSE HtmlIngredients(page.body)
    IN  IF ScriptRaises(script) THEN Raised("AttributeError")
        ELSE Returned(recipe_name, ingredients)

\* ------------------------------------------------------------- composition

\* dias_semana (fast, lines 160-166) and DIAS_UTEIS (static, line 32).
dias_semana == <<"Segunda-feira", "Terca-feira", "Quarta-feira", "Quinta-feira", "Sexta-feira">>

\* The message body is the list `linhas` that "\n".join renders, one record
\* per element.
GreetingLine(variant) == [kind |-> "greeting", variant |-> variant, dia |-> "", nome |-> None, url |-> None, item |-> None]
DayLine(dia, nome, url) == [kind |-> "day", variant |-> "", dia |-> dia, nome |-> Some(nome), url |-> url, item |-> None]
HeaderLine == [kind |-> "header", variant |-> "", dia |-> "", nome |-> None, url |-> None, item |-> None]
BulletLine(item) == [kind |-> "bullet", variant |-> "", dia |-> "", nome |-> None, url |-> None, item |-> Some(item)]
BlankLine == [kind |-> "blank", variant |-> "", dia |-> "", nome |-> None, url |-> None, item |-> None]

\* Lines 169-171: f"{dia}: {nome} — {url}" with dia = dias_semana[idx % 5].
MenuLines(menu) ==
    [i \in 1..Len(menu) |->
        DayLine(dias_semana[((i - 1) % Len(dias_semana)) + 1], menu[i].name, Some(menu[i].url))]

\* Lines 173-174.
BulletLines(ingredients) == [i \in 1..Len(ingredients) |-> BulletLine(ingredients[i])]

\* A composer that writes the section header only above at least one bullet.
compose_email_HeaderOnlyWithItems(menu, ingredients) ==
    <<GreetingLine("fast")>> \o MenuLines(menu)
    \o (IF ingredients = <<>> THEN <<>> ELSE <<HeaderLine>> \o BulletLines(ingredients))

\* compose_email(menu, ingredients), lines 167-175.
compose_email(menu, ingredients) ==
    <<GreetingLine("fast")>> \o MenuLines(menu) \o <<HeaderLine>> \o BulletLines(ingredients)

\* Lines 63-68 of the static variant: DIAS_UTEIS[idx], and the URL only when
\* it is not empty.
StaticMenuLines(menu) ==
    [i \in 1..Len(menu) |->
        DayLine(dias_semana[i], menu[i].name,
                IF menu[i].url # <<>> THEN Some(menu[i].url) ELSE None)]

\* compose_email_body(menu), static variant lines 62-69.
compose_email_body(menu) ==
    <<GreetingLine("static"), BlankLine>> \o StaticMenuLines(menu)

\* ------------------------------------------------------- the static catalog

\* recipes_static.json: missing, JSON that is not a list, or a list of
\* objects whose "name" and "url" keys are optional.
CatalogMissing == [kind |-> "missing", items |-> <<>>]
CatalogNotList == [kind |-> "notlist", items |-> <<>>]
CatalogList(items) == [kind |-> "list", items |-> items]
Entry(name, url) == [name |-> name, url |-> url]

CatalogEntries ==
    <<Entry(Some(<<" ", "a">>), Some(<<"a", " ">>)),
      Entry(Some(<<"b">>), None),
      Entry(Some(<<"A">>), Some(<<"A">>)),
      Entry(Some(<<" ">>), Some(<<"b">>)),
      Entry(Some(<<"B", " ">>), Some(<<" ">>)),
      Entry(None, Some(<<"B">>)),
      Entry(Some(<<"A", "b">>), Some(<<"b">>)),
      Entry(Some(<<"b", "a">>), Some(<<"B">>))>>

CatalogFiles ==
    {CatalogMissing, CatalogNotList, CatalogList(<<>>),
     CatalogList(SubSeq(CatalogEntries, 1, 6)),
     CatalogList(SubSeq(CatalogEntries, 1, 7)),
     CatalogList(CatalogEntries)}

\* (it.get(key) or "").strip(), static variant lines 47-48.
FieldText(field) == IF field = None THEN <<>> ELSE Strip(field[1])

\* Static variant lines 45-51: entries without a name are skipped.
RECURSIVE NormEntries(_)
NormEntries(items) ==
    IF items = <<>> THEN <<>>
    ELSE LET name == FieldText(Head(items).name)
             url  == FieldText(Head(items).url)
         IN  (IF name = <<>> THEN <<>> ELSE <<[name |-> name, url |-> url]>>)
             \o NormEntries(Tail(items))

\* load_static_recipes(path), static variant lines 35-54.
load_static_recipes(file) ==
    IF file.kind = "missing" THEN [ok |-> FALSE, err |-> "FileNotFoundError", norm |-> <<>>]
    ELSE IF file.kind # "list" \/ file.items = <<>>
         THEN [ok |-> FALSE, err |-> "ValueError", norm |-> <<>>]
         ELSE LET norm == NormEntries(file.items)
              IN  IF Len(norm) < MENU_SIZE
                  THEN [ok |-> FALSE, err |-> "ValueError", norm |-> <<>>]
                  ELSE [ok |-> TRUE, err |-> "", norm |-> norm]

\* ------------------------------------------------------------- the network

\* The recipe pages of the site, by slug.
Text_a   == <<"a">>
Text_b   == <<"b">>
Text_B   == <<"B">>
Text_Ab  == <<"A", "b">>

PageOk(title, script, body) == [status |-> "ok", title |-> title, script |-> script, body |-> body]
PageError == [status |-> "error", title |-> None, script |-> ScriptAbsent, body |-> <<>>]

SitePage(slug) ==
    CASE slug = "r1" -> PageOk(Some(<<" ", "A", " ">>),
                               ScriptObject(Some(Text_Ab), Some(<<Text_a, <<" ", "B", " ">> >>)), <<>>)
      [] slug = "r2" -> PageOk(Some(Text_B), ScriptAbsent,
                               <<Heading(TRUE), UList(<<<<" ", "a", " ">>, <<>>, Text_b>>)>>)
      [] slug = "r3" -> PageOk(None, ScriptInvalid, <<UList(<<<<"A", " ", "b">> >>)>>)
      [] slug = "r4" -> PageOk(Some(Text_a), ScriptObject(None, Some(<<>>)),
                               <<Heading(FALSE), UList(<<Text_B>>)>>)
      [] slug = "r5" -> PageOk(Some(Text_b), ScriptEmpty, <<>>)
      [] OTHER       -> PageOk(Some(Text_Ab), ScriptNonObject, <<UList(<<Text_a>>)>>)

\* An anchor's href on the listing page.
AbsHref(slug)   == [host |-> DOMAIN_HOST, section |-> "receita", slug |-> slug]
RelHref(slug)   == [host |-> "", section |-> "receita", slug |-> slug]
OtherHref(slug) == [host |-> DOMAIN_HOST, section |-> "blog", slug |-> slug]

ListingNone  == <<OtherHref("x")>>
ListingShort == <<AbsHref("r1"), RelHref("r1"), OtherHref("x"), RelHref("r2"), AbsHref("r3")>>
ListingFive  == <<AbsHref("r1"), RelHref("r2"), RelHref("r1"), AbsHref("r3"), OtherHref("x"),
                  RelHref("r4"), AbsHref("r5"), AbsHref("r2")>>
Listings == {ListingNone, ListingShort, ListingFive}

\* Lines 65-71: the recipe links of the anchors, relative ones made absolute.
RECURSIVE recipe_urls(_)
recipe_urls(anchors) ==
    IF anchors = <<>> THEN <<>>
    ELSE LET href == Head(anchors)
             here == IF href.host = DOMAIN_HOST /\ href.section = "receita" THEN <<href>>
                     ELSE IF href.host = "" /\ href.section = "receita"
                          THEN <<RecipeUrl(href.slug)>>
                          ELSE <<>>
         IN  here \o recipe_urls(Tail(anchors))

\* list(dict.fromkeys(recipe_urls)), line 72: first occurrences, in order.
RECURSIVE FromKeys(_)
FromKeys(xs) ==
    IF xs = <<>> THEN <<>>
    ELSE LET init == FromKeys(SubSeq(xs, 1, Len(xs) - 1))
             x == xs[Len(xs)]
         IN  IF \E i \in 1..Len(init) : init[i] = x THEN init ELSE Append(init, x)

\* Lines 63-72.
unique_urls(anchors) == FromKeys(recipe_urls(anchors))

\* ------------------------------------------------------ the cache artifact

\* receitas_cache.json: absent, unreadable as JSON, JSON that is not a list,
\* or a JSON list of URLs.
CacheAbsent     == [kind |-> "absent",     urls |-> <<>>]
CacheUnparsable == [kind |-> "unparsable", urls |-> <<>>]
CacheNotList    == [kind |-> "notlist",    urls |-> <<>>]
CacheList(us)   == [kind |-> "list",       urls |-> us]

SixUrls == [i \in 1..6 |-> RecipeUrl(<<"r1", "r2", "r3", "r4", "r5", "r6">>[i])]

InitialCaches ==
    {CacheAbsent, CacheUnparsable, CacheNotList, CacheList(<<>>), CacheList(SixUrls)}
    \cup {CacheList(unique_urls(l)) : l \in Listings}

\* A cache check that accepts only a list of exactly MENU_SIZE URLs.
CacheUsable_ExactlyFive(c) == c.kind = "list" /\ Len(c.urls) = MENU_SIZE

\* A cache check that rejects a list too short to build a menu from.
CacheUsable_NeedsFive(c) == c.kind = "list" /\ Len(c.urls) >= MENU_SIZE

\* Lines 52-57: the cache is used when it holds a non-empty list.
CacheUsable(c) == c.kind = "list" /\ c.urls # <<>>

\* random.sample(population, k): every arrangement of k distinct positions of
\* the population; none when the population is shorter than k (ValueError).
Samples(population, k) ==
    {[i \in 1..k |-> population[f[i]]] :
        f \in {g \in [1..k -> 1..Len(population)] : \A i, j \in 1..k : i # j => g[i] # g[j]}}

Range(f) == {f[i] : i \in DOMAIN f}

\* Every order in which the elements of a finite set can be enumerated.
Orders(S) ==
    {g \in [1..Cardinality(S) -> S] : \A i, j \in 1..Cardinality(S) : i # j => g[i] # g[j]}

\* ------------------------------------------------------------------- state

VARIABLES
    program,            \* which script runs: "fast" or "static"
    pc,                 \* where the main thread is
    cache,              \* receitas_cache.json
    urls,               \* build_menu's `urls`
    listing_fetched,    \* this run fetched BLOG_URL
    cache_written,      \* this run rewrote the cache artifact
    fut,                \* future_to_url: URL -> the state of its future
    finished_futures,   \* the as_completed waiter's list of finished futures
    yielded,            \* the futures the as_completed loop has handled
    completed,          \* history: successful fetches in completion order,
                        \* since submission or since as_completed was entered
    n_pre,              \* history: successes already finished when
                        \* as_completed was entered
    pre_in_order,       \* history: those were yielded in completion order
    menu, all_ingredients, unique_ingredients,
    failures,           \* the URLs line 144 reported
    corpo,              \* the message body, None before composition
    sent,               \* "none", "ok" or "failed"
    recipes,            \* static variant: the loaded catalog
    page, parsed,       \* parse_recipe on its own: the response and the outcome
    error               \* the exception that ended the run, "" if none

vars == <<program, pc, cache, urls, listing_fetched, cache_written, fut,
          finished_futures, yielded, completed, n_pre, pre_in_order, menu,
          all_ingredients, unique_ingredients, failures, corpo, sent, recipes,
          page, parsed, error>>

run_locals == <<urls, listing_fetched, cache_written, fut, finished_futures, yielded,
                completed, n_pre, pre_in_order, menu, all_ingredients,
                unique_ingredients, failures, corpo, sent, recipes, error>>

Running == [state |-> "running", res |-> Raised("")]
Done(res) == [state |-> "done", res |-> res]

NoPage == PageError
NoParse == Raised("")

FreshRun ==
    /\ urls = <<>>
    /\ listing_fetched = FALSE
    /\ cache_written = FALSE
    /\ fut = <<>>
    /\ finished_futures = <<>>
    /\ yielded = {}
    /\ completed = <<>>
    /\ n_pre = 0
    /\ pre_in_order = TRUE
    /\ menu = <<>>
    /\ all_ingredients = <<>>
    /\ unique_ingredients = <<>>
    /\ failures = {}
    /\ corpo = None
    /\ sent = "none"
    /\ recipes = <<>>
    /\ error = ""

\* The run-local state as job() finds it.
ResetRun ==
    /\ urls' = <<>>
    /\ listing_fetched' = FALSE
    /\ cache_written' = FALSE
    /\ fut' = <<>>
    /\ finished_futures' = <<>>
    /\ yielded' = {}
    /\ completed' = <<>>
    /\ n_pre' = 0
    /\ pre_in_order' = TRUE
    /\ menu' = <<>>
    /\ all_ingredients' = <<>>
    /\ unique_ingredients' = <<>>
    /\ failures' = {}
    /\ corpo' = None
    /\ sent' = "none"
    /\ recipes' = <<>>
    /\ error' = ""

Init ==
    /\ program \in {"fast", "static"}
    /\ pc = "idle"
    /\ cache \in IF program = "fast" THEN InitialCaches ELSE {CacheAbsent}
    /\ FreshRun
    /\ page = NoPage
    /\ parsed = NoParse

\* ------------------------------------------------- fast variant: the job

\* job() is entered (line 202): by the scheduler, or by the process being
\* started again after an exception ended it.
JobStart ==
    /\ program = "fast"
    /\ pc \in {"idle", "done", "crashed"}
    /\ pc' = "get_urls"
    /\ ResetRun
    /\ UNCHANGED <<program, cache, page, parsed>>

\* get_recipe_urls() returning the cache (lines 52-57).
GetRecipeUrlsCached ==
    /\ pc = "get_urls"
    /\ CacheUsable(cache)
    /\ urls' = cache.urls
    /\ pc' = "have_urls"
    /\ UNCHANGED <<program, cache, listing_fetched, cache_written, fut, finished_futures,
                   yielded, completed, n_pre, pre_in_order, menu, all_ingredients,
                   unique_ingredients, failures, corpo, sent, recipes, page, parsed, error>>

\* get_recipe_urls() discovering the URLs (lines 61-79); the cache write may
\* fail, which lines 77-78 swallow.
GetRecipeUrlsDiscover ==
    /\ pc = "get_urls"
    /\ ~CacheUsable(cache)
    /\ listing_fetched' = TRUE
    /\ \E listing \in Listings, write_ok \in BOOLEAN :
        /\ urls' = unique_urls(listing)
        /\ cache' = IF write_ok THEN CacheList(urls') ELSE cache
        /\ cache_written' = write_ok
    /\ pc' = "have_urls"
    /\ UNCHANGED <<program, fut, finished_futures, yielded, completed, n_pre,
                   pre_in_order, menu, all_ingredients, unique_ingredients, failures,
                   corpo, sent, recipes, page, parsed, error>>

\* get_recipe_urls() when the listing fetch fails (lines 61-62): the exception
\* leaves build_menu and job.
GetRecipeUrlsFail ==
    /\ pc = "get_urls"
    /\ ~CacheUsable(cache)
    /\ listing_fetched' = TRUE
    /\ error' = "HTTPError"
    /\ pc' = "crashed"
    /\ UNCHANGED <<program, cache, urls, cache_written, fut, finished_futures, yielded,
                   completed, n_pre, pre_in_order, menu, all_ingredients,
                   unique_ingredients, failures, corpo, sent, recipes, page, parsed>>

\* A threshold two too low.
Insufficient_OffByTwo(us) == Len(us) < MENU_SIZE - 2

\* Line 127.
Insufficient(us) == Len(us) < MENU_SIZE

\* Lines 127-130: too few candidates; the RuntimeError leaves build_menu and job.
RaiseInsufficient ==
    /\ pc = "have_urls"
    /\ Insufficient(urls)
    /\ error' = "RuntimeError"
    /\ pc' = "crashed"
    /\ UNCHANGED <<program, cache, urls, listing_fetched, cache_written, fut,
                   finished_futures, yielded, completed, n_pre, pre_in_order, menu,
                   all_ingredients, unique_ingredients, failures, corpo, sent, recipes,
                   page, parsed>>

\* Lines 131-136: the sample is drawn (random.sample raises ValueError when the
\* population is smaller than the sample) and one parse_recipe call per
\* selected URL is submitted to the pool.
Submit ==
    /\ pc = "have_urls"
    /\ ~Insufficient(urls)
    /\ IF Samples(urls, MENU_SIZE) = {}
       THEN /\ error' = "ValueError"
            /\ pc' = "crashed"
            /\ fut' = fut
       ELSE /\ \E selected \in Samples(urls, MENU_SIZE) :
                fut' = [u \in Range(selected) |-> Running]
            /\ pc' = "submitted"
            /\ error' = error
    /\ UNCHANGED <<program, cache, urls, listing_fetched, cache_written,
                   finished_futures, yielded, completed, n_pre, pre_in_order, menu,
                   all_ingredients, unique_ingredients, failures, corpo, sent, recipes,
                   page, parsed>>

\* A pool worker finishes parse_recipe(u): the page fetch succeeds or fails
\* (lines 89-90), and the future is set to the result or to the exception.
\* A future finished after as_completed was entered joins the waiter's list.
WorkerComplete(u) ==
    /\ pc \in {"submitted", "collecting"}
    /\ u \in DOMAIN fut
    /\ fut[u].state = "running"
    /\ \E response \in {SitePage(u.slug), PageError} :
        LET res == parse_recipe(u, response)
        IN  /\ fut' = [fut EXCEPT ![u] = Done(res)]
            /\ completed' = IF res.ok THEN Append(completed, u) ELSE completed
    /\ finished_futures' = IF pc = "collecting" THEN Append(finished_futures, u)
                           ELSE finished_futures
    /\ UNCHANGED <<program, pc, cache, urls, listing_fetched, cache_written, yielded,
                   n_pre, pre_in_order, menu, all_ingredients, unique_ingredients,
                   failures, corpo, sent, recipes, page, parsed, error>>

\* A loop body that appends an entry whether or not the future raised.
MenuAfter_AppendsAlways(m, u, res) == Append(m, [name |-> res.name, url |-> u])

\* A loop body that puts the newest entry first.
MenuAfter_Prepends(m, u, res) == IF res.ok THEN <<[name |-> res.name, url |-> u]>> \o m ELSE m

\* Lines 138-144, the body of the as_completed loop, for the future of u.
MenuAfter(m, u, res) == IF res.ok THEN Append(m, [name |-> res.name, url |-> u]) ELSE m
IngredientsAfter(all, res) == IF res.ok THEN all \o res.ingredients ELSE all
FailuresAfter(fs, u, res) == IF res.ok THEN fs ELSE fs \cup {u}

\* The loop body run over a list of finished futures.
RECURSIVE MenuAfterAll(_, _, _)
MenuAfterAll(m, order, f) ==
    IF order = <<>> THEN m
    ELSE MenuAfterAll(MenuAfter(m, Head(order), f[Head(order)].res), Tail(order), f)

RECURSIVE IngredientsAfterAll(_, _, _)
IngredientsAfterAll(all, order, f) ==
    IF order = <<>> THEN all
    ELSE IngredientsAfterAll(IngredientsAfter(all, f[Head(order)].res), Tail(order), f)

OkOnly(order, f) == SelectSeq(order, LAMBDA u : f[u].res.ok)

\* Line 137, as_completed(future_to_url) is entered.  concurrent.futures
\* collects the futures that have already finished into a set and yields
\* those first, in the set's iteration order, which is any order; the loop
\* body runs for each.  Futures that finish later are yielded from the
\* waiter's list, in the order in which they finished.  From here on
\* `completed` records the successes that finish after this point.
AsCompleted ==
    /\ pc = "submitted"
    /\ LET finished == {u \in DOMAIN fut : fut[u].state = "done"}
       IN  \E order \in Orders(finished) :
            /\ menu' = MenuAfterAll(menu, order, fut)
            /\ all_ingredients' = IngredientsAfterAll(all_ingredients, order, fut)
            /\ failures' = failures \cup {u \in finished : ~fut[u].res.ok}
            /\ yielded' = finished
            /\ n_pre' = Len(OkOnly(order, fut))
            /\ pre_in_order' = (OkOnly(order, fut) = completed)
    /\ completed' = <<>>
    /\ pc' = "collecting"
    /\ UNCHANGED <<program, cache, urls, listing_fetched, cache_written, fut,
                   finished_futures, unique_ingredients, corpo, sent, recipes, page,
                   parsed, error>>

\* One iteration of the loop of lines 137-144 on the next future the waiter
\* holds: its result is appended, or its exception is caught and reported.
Collect ==
    /\ pc = "collecting"
    /\ finished_futures # <<>>
    /\ LET u == Head(finished_futures)
       IN  /\ menu' = MenuAfter(menu, u, fut[u].res)
           /\ all_ingredients' = IngredientsAfter(all_ingredients, fut[u].res)
           /\ failures' = FailuresAfter(failures, u, fut[u].res)
           /\ yielded' = yielded \cup {u}
    /\ finished_futures' = Tail(finished_futures)
    /\ UNCHANGED <<program, pc, cache, urls, listing_fetched, cache_written, fut,
                   completed, n_pre, pre_in_order, unique_ingredients, corpo, sent,
                   recipes, page, parsed, error>>

\* Lines 145-152: every future was yielded; the ingredients are deduplicated
\* and build_menu returns.
ReturnMenu ==
    /\ pc = "collecting"
    /\ yielded = DOMAIN fut
    /\ unique_ingredients' = Dedupe(all_ingredients)
    /\ completed' = <<>>
    /\ n_pre' = 0
    /\ pre_in_order' = TRUE
    /\ pc' = "built"
    /\ UNCHANGED <<program, cache, urls, listing_fetched, cache_written, fut,
                   finished_futures, yielded, menu, all_ingredients, failures, corpo,
                   sent, recipes, page, parsed, error>>

\* Line 204.
Compose ==
    /\ program = "fast"
    /\ pc = "built"
    /\ corpo' = Some(compose_email(menu, unique_ingredients))
    /\ pc' = "composed"
    /\ UNCHANGED <<program, cache, urls, listing_fetched, cache_written, fut,
                   finished_futures, yielded, completed, n_pre, pre_in_order, menu,
                   all_ingredients, unique_ingredients, failures, sent, recipes, page,
                   parsed, error>>

\* Lines 205-209: send_email is attempted; its failure is caught and reported.
Send ==
    /\ program = "fast"
    /\ pc = "composed"
    /\ sent' \in {"ok", "failed"}
    /\ pc' = "done"
    /\ UNCHANGED <<program, cache, urls, listing_fetched, cache_written, fut,
                   finished_futures, yielded, completed, n_pre, pre_in_order, menu,
                   all_ingredients, unique_ingredients, failures, corpo, recipes, page,
                   parsed, error>>

\* --------------------------------------------------- static variant: main

\* main() is entered (static variant line 93).
StaticStart ==
    /\ program = "static"
    /\ pc \in {"idle", "done", "crashed"}
    /\ pc' = "load"
    /\ ResetRun
    /\ UNCHANGED <<program, cache, page, parsed>>

\* Static variant line 94: the catalog is loaded, or the exception ends main().
StaticLoad ==
    /\ pc = "load"
    /\ \E file \in CatalogFiles :
        LET loaded == load_static_recipes(file)
        IN  /\ recipes' = loaded.norm
            /\ error' = loaded.err
            /\ pc' = IF loaded.ok THEN "loaded" ELSE "crashed"
    /\ UNCHANGED <<program, cache, urls, listing_fetched, cache_written, fut,
                   finished_futures, yielded, completed, n_pre, pre_in_order, menu,
                   all_ingredients, unique_ingredients, failures, corpo, sent, page,
                   parsed>>

\* A sample one recipe short.
build_menu_static_Four(rs) ==
    {[i \in 1..Len(selected) |-> [name |-> selected[i].name, url |-> selected[i].url]] :
        selected \in Samples(rs, MENU_SIZE - 1)}

\* build_menu_static(recipes), static variant lines 58-59.
build_menu_static(rs) ==
    {[i \in 1..Len(selected) |-> [name |-> selected[i].name, url |-> selected[i].url]] :
        selected \in Samples(rs, MENU_SIZE)}

\* Static variant line 95.
StaticBuild ==
    /\ pc = "loaded"
    /\ menu' \in build_menu_static(recipes)
    /\ pc' = "built"
    /\ UNCHANGED <<program, cache, urls, listing_fetched, cache_written, fut,
                   finished_futures, yielded, completed, n_pre, pre_in_order,
                   all_ingredients, unique_ingredients, failures, corpo, sent, recipes,
                   page, parsed, error>>

\* Static variant line 96.
StaticCompose ==
    /\ program = "static"
    /\ pc = "built"
    /\ corpo' = Some(compose_email_body(menu))
    /\ pc' = "composed"
    /\ UNCHANGED <<program, cache, urls, listing_fetched, cache_written, fut,
                   finished_futures, yielded, completed, n_pre, pre_in_order, menu,
                   all_ingredients, unique_ingredients, failures, sent, recipes, page,
                   parsed, error>>

\* Static variant line 97: send_email is attempted; main() does not catch its
\* failure.
StaticSend ==
    /\ program = "static"
    /\ pc = "composed"
    /\ \E ok \in BOOLEAN :
        /\ sent' = IF ok THEN "ok" ELSE "failed"
        /\ error' = IF ok THEN "" ELSE "SMTPException"
        /\ pc' = IF ok THEN "done" ELSE "crashed"
    /\ UNCHANGED <<program, cache, urls, listing_fetched, cache_written, fut,
                   finished_futures, yielded, completed, n_pre, pre_in_order, menu,
                   all_ingredients, unique_ingredients, failures, corpo, recipes, page,
                   parsed>>

NextStatic ==
    \/ StaticStart
    \/ StaticLoad
    \/ StaticBuild
    \/ StaticCompose
    \/ StaticSend

NextFast ==
    \/ JobStart
    \/ GetRecipeUrlsCached
    \/ GetRecipeUrlsDiscover
    \/ GetRecipeUrlsFail
    \/ RaiseInsufficient
    \/ Submit
    \/ \E u \in DOMAIN fut : WorkerComplete(u)
    \/ AsCompleted
    \/ Collect
    \/ ReturnMenu
    \/ Compose
    \/ Send

Next == NextFast \/ NextStatic

Spec == Init /\ [][Next]_vars

\* ----------------------------------------------- parse_recipe on its own

Titles == {None, Some(<<" ", "A", "b", " ">>)}

Scripts ==
    {ScriptAbsent, ScriptEmpty, ScriptInvalid, ScriptNonObject}
    \cup {ScriptObject(name, ingr) :
            name \in {None, Some(Text_B)},
            ingr \in {None, Some(<<>>), Some(<<Text_a>>), Some(<<<<" ", "a", " ">>, <<>>, Text_Ab>>),
                      Some(<<<<" ">> >>)}}

Bodies ==
    {<<>>,
     <<Heading(TRUE), UList(<<<<" ", "a">>, <<>>, <<" ">>, Text_b>>)>>,
     <<Heading(FALSE), UList(<<Text_b, <<"B", " ">> >>)>>,
     <<UList(<<<<" ">>, <<>> >>)>>,
     <<Heading(TRUE)>>,
     <<Heading(TRUE), Heading(TRUE), UList(<<Text_a>>)>>,
     <<UList(<<Text_b>>), Heading(TRUE), UList(<<Text_a>>), UList(<<Text_B>>)>>}

Pages ==
    {PageError} \cup {PageOk(t, sc, b) : t \in Titles, sc \in Scripts, b \in Bodies}

ParseUrl == RecipeUrl("r1")

InitParse ==
    /\ program = "fast"
    /\ pc = "parse"
    /\ cache = CacheAbsent
    /\ FreshRun
    /\ page \in Pages
    /\ parsed = NoParse

\* parse_recipe(url) is called on the response `page`.
ParseStep ==
    /\ pc = "parse"
    /\ parsed' = parse_recipe(ParseUrl, page)
    /\ pc' = "parsed"
    /\ UNCHANGED <<program, cache, page>>
    /\ UNCHANGED run_locals

SpecParse == InitParse /\ [][ParseStep]_vars

\* ------------------------------------------- the deduplication on its own

\* Longest aggregated ingredient list drawn.
MaxItems == 3

IngredientPool ==
    {<<>>, <<" ">>, Text_a, <<"A">>, <<" ", "a">>, <<"A", " ">>, Text_B, Text_b,
     <<"a", "B">>, Text_Ab}

ListsUpTo(S, n) == UNION {[1..k -> S] : k \in 0..n}

InitDedupe ==
    /\ program = "fast"
    /\ pc = "aggregated"
    /\ cache = CacheAbsent
    /\ urls = <<>>
    /\ listing_fetched = FALSE
    /\ cache_written = FALSE
    /\ fut = <<>>
    /\ finished_futures = <<>>
    /\ yielded = {}
    /\ completed = <<>>
    /\ n_pre = 0
    /\ pre_in_order = TRUE
    /\ menu = <<>>
    /\ all_ingredients \in ListsUpTo(IngredientPool, MaxItems)
    /\ unique_ingredients = <<>>
    /\ failures = {}
    /\ corpo = None
    /\ sent = "none"
    /\ recipes = <<>>
    /\ error = ""
    /\ page = NoPage
    /\ parsed = NoParse

\* Lines 146-151 on all_ingredients.
DedupeStep ==
    /\ pc = "aggregated"
    /\ unique_ingredients' = Dedupe(all_ingredients)
    /\ pc' = "deduped"
    /\ UNCHANGED <<program, cache, urls, listing_fetched, cache_written, fut,
                   finished_futures, yielded, completed, n_pre, pre_in_order, menu,
                   all_ingredients, failures, corpo, sent, recipes, page, parsed, error>>

SpecDedupe == InitDedupe /\ [][DedupeStep]_vars

\* -------------------------------------------- the composition on its own

\* Longest shopping list drawn.
MaxBullets == 2

BulletPool == {Text_a, Text_B, Text_Ab}

\* A menu as build_menu returns it when every fetch succeeds, and its prefixes.
FullMenu ==
    [i \in 1..MENU_SIZE |->
        [name |-> parse_recipe(SixUrls[i], SitePage(SixUrls[i].slug)).name, url |-> SixUrls[i]]]

FastMenus == {SubSeq(FullMenu, 1, n) : n \in 0..MENU_SIZE}

StaticMenus == build_menu_static(load_static_recipes(CatalogList(CatalogEntries)).norm)

InitCompose ==
    /\ program \in {"fast", "static"}
    /\ pc = "built"
    /\ cache = CacheAbsent
    /\ urls = <<>>
    /\ listing_fetched = FALSE
    /\ cache_written = FALSE
    /\ fut = <<>>
    /\ finished_futures = <<>>
    /\ yielded = {}
    /\ completed = <<>>
    /\ n_pre = 0
    /\ pre_in_order = TRUE
    /\ menu \in IF program = "fast" THEN FastMenus ELSE StaticMenus
    /\ all_ingredients = <<>>
    /\ unique_ingredients \in IF program = "fast" THEN ListsUpTo(BulletPool, MaxBullets)
                                                  ELSE {<<>>}
    /\ failures = {}
    /\ corpo = None
    /\ sent = "none"
    /\ recipes = <<>>
    /\ error = ""
    /\ page = NoPage
    /\ parsed = NoParse

NextCompose == Compose \/ StaticCompose

SpecCompose == InitCompose /\ [][NextCompose]_vars

\* ================================================================== claims

MenuUrls(m) == [i \in 1..Len(m) |-> m[i].url]
Succeeded(f) == {u \in DOMAIN f : f[u].state = "done" /\ f[u].res.ok}
Failed(f) == {u \in DOMAIN f : f[u].state = "done" /\ ~f[u].res.ok}
Distinct(q) == \A i, j \in 1..Len(q) : i # j => q[i] # q[j]
AfterBuild == {"built", "composed", "done"}

\* The ingredients of the menu's recipes, in menu order.
RECURSIVE IngredientsOf(_, _)
IngredientsOf(m, f) ==
    IF m = <<>> THEN <<>>
    ELSE f[Head(m).url].res.ingredients \o IngredientsOf(Tail(m), f)

CountKind(body, kind) == Cardinality({i \in 1..Len(body) : body[i].kind = kind})

\* ---- C1
\* While and after the futures are collected, a selected recipe is in the menu
\* exactly when its future returned, the aggregated ingredients are those of
\* the menu's recipes and of no other, and every failure is reported.
C1_Isolation ==
    (program = "fast" /\ pc \in {"collecting"} \cup AfterBuild) =>
        /\ \A u \in yielded : (u \in Range(MenuUrls(menu))) <=> fut[u].res.ok
        /\ Range(MenuUrls(menu)) \subseteq yielded
        /\ all_ingredients = IngredientsOf(menu, fut)
        /\ failures = Failed(fut) \cap yielded

\* A failed fetch never ends the run: an exception ends a run of the scraping
\* variant only before anything was dispatched, the loop is never left waiting
\* for a future that is not coming, and a run that has ended otherwise has
\* composed the message and attempted delivery.
C1_RunGoesOn ==
    program = "fast" =>
        /\ pc = "crashed" => fut = <<>>
        /\ error # "" => pc = "crashed"
        /\ (pc = "collecting" /\ finished_futures = <<>>
              /\ \A u \in DOMAIN fut : fut[u].state = "done") => yielded = DOMAIN fut
        /\ pc = "done" => corpo = Some(compose_email(menu, Dedupe(IngredientsOf(menu, fut))))
                          /\ sent \in {"ok", "failed"}

\* C1: for every combination of success and failure of the 5 parse_recipe
\* calls, a recipe is in the menu iff its fetch/parse succeeded, a failed recipe
\* contributes no ingredient, the batch is not aborted, and the job goes on to
\* compose the message and attempt delivery.
C1_FailureIsolation == C1_Isolation /\ C1_RunGoesOn

\* C1 witness: a run in which exactly one of the five fetches failed has
\* attempted delivery of a 4-entry menu.
C1_Witness ==
    /\ program = "fast"
    /\ pc = "done"
    /\ Cardinality(Failed(fut)) = 1
    /\ Len(menu) = 4
    /\ all_ingredients # <<>>
    /\ sent = "ok"

\* C2: with fewer than 5 candidate URLs the run ends with the
\* insufficient-candidates error (RuntimeError) before any recipe fetch is
\* dispatched: no future exists, no menu is built, no message is composed and
\* no delivery is attempted.
C2_InsufficientAborts ==
    (program = "fast" /\ pc \notin {"idle", "get_urls"} /\ Len(urls) < MENU_SIZE) =>
        /\ pc \in {"have_urls", "crashed"}
        /\ pc = "crashed" => error \in {"RuntimeError", "HTTPError"}
        /\ (pc = "crashed" /\ urls # <<>>) => error = "RuntimeError"
        /\ error = "HTTPError" => ~CacheUsable(cache) /\ listing_fetched
        /\ fut = <<>>
        /\ menu = <<>>
        /\ all_ingredients = <<>>
        /\ corpo = None
        /\ sent = "none"

\* C2 witness: a run that resolved 3 candidates has ended with the error.
C2_Witness ==
    /\ program = "fast"
    /\ pc = "crashed"
    /\ error = "RuntimeError"
    /\ Len(urls) = 3

\* C3: when the cache artifact holds a list of N >= 5 URLs, get_recipe_urls
\* returns exactly that list, in its order, does not fetch the listing page
\* and does not rewrite the cache.
C3_CacheHit ==
    [][(program = "fast" /\ pc = "get_urls" /\ cache.kind = "list"
          /\ Len(cache.urls) >= MENU_SIZE) =>
            /\ pc' = "have_urls"
            /\ urls' = cache.urls
            /\ cache' = cache
            /\ ~listing_fetched'
            /\ ~cache_written']_vars

\* C3 witness: get_recipe_urls has returned a cached list of 6 URLs.
C3_Witness ==
    /\ program = "fast"
    /\ pc = "have_urls"
    /\ Len(cache.urls) = 6
    /\ urls = cache.urls
    /\ ~listing_fetched

\* The normalized form of an ingredient: trimmed, case-folded.
NormalForm(x) == Lower(Strip(x))

\* C4: the shopping list holds no two entries with equal normalized forms and
\* is sorted case-insensitively by display value.
C4_UniqueSorted ==
    pc = "deduped" =>
        /\ \A i, j \in 1..Len(unique_ingredients) :
              i # j => NormalForm(unique_ingredients[i]) # NormalForm(unique_ingredients[j])
        /\ \A i, j \in 1..Len(unique_ingredients) :
              i < j => ~StrLess(Lower(unique_ingredients[j]), Lower(unique_ingredients[i]))

\* C4 witness: ["B", " a", "A "] has become ["a", "B"].
C4_Witness ==
    /\ pc = "deduped"
    /\ all_ingredients = <<Text_B, <<" ", "a">>, <<"A", " ">> >>
    /\ unique_ingredients = <<Text_a, Text_B>>

\* C5 as stated: every run that builds a menu produces exactly 5 entries, in
\* both variants.
C5_ExactlyFive ==
    pc \in AfterBuild => Len(menu) = MENU_SIZE

\* The day lines of a composed message are the first weekdays, in order.
DaysInOrder(body, n) ==
    LET days == SelectSeq(body, LAMBDA l : l.kind = "day")
    IN  /\ Len(days) = n
        /\ \A i \in 1..n : days[i].dia = dias_semana[i]

\* C5 amended: the static variant's menu has exactly 5 entries; the scraping
\* variant's has one entry per selected recipe that was fetched and parsed, so
\* 5 when all succeed and fewer otherwise; each entry gets its own weekday.
C5_FivePerSuccess ==
    /\ (program = "static" /\ pc \in AfterBuild) => Len(menu) = MENU_SIZE
    /\ (program = "static" /\ pc = "crashed" /\ menu # <<>>) => Len(menu) = MENU_SIZE
    /\ (program = "fast" /\ pc \in AfterBuild) =>
            /\ Cardinality(DOMAIN fut) = MENU_SIZE
            /\ Len(menu) = Cardinality(Succeeded(fut))
            /\ Len(menu) <= MENU_SIZE
    /\ (pc \in {"composed", "done"}) => DaysInOrder(corpo[1], Len(menu))

\* C5 witness: the scraping variant has delivered a menu of 3 entries.
C5_Witness ==
    /\ program = "fast"
    /\ pc = "done"
    /\ Len(menu) = 3
    /\ CountKind(corpo[1], "day") = 3

\* C6: once the page was fetched, parse_recipe returns whatever the page holds.
C6_ParseNeverFails ==
    (pc = "parsed" /\ page.status = "ok") => parsed.ok

\* C7 as stated: a line per menu entry, a bullet per ingredient, and no
\* shopping-list section (no header, no bullet) when there is no ingredient.
C7_NoSectionWhenEmpty ==
    pc = "composed" =>
        /\ CountKind(corpo[1], "day") = Len(menu)
        /\ CountKind(corpo[1], "bullet") = Len(unique_ingredients)
        /\ unique_ingredients = <<>> =>
              CountKind(corpo[1], "header") = 0 /\ CountKind(corpo[1], "bullet") = 0

\* C7 amended: compose_email writes a line per menu entry, then always the
\* "Lista de compras:" header, then a bullet per ingredient in order, so with
\* no ingredient the header stands alone; compose_email_body (static) writes a
\* line per menu entry and never a header or a bullet.
C7_HeaderAlways ==
    pc = "composed" =>
        LET body == corpo[1]
            n == Len(menu)
            k == Len(unique_ingredients)
        IN  /\ CountKind(body, "day") = n
            /\ program = "fast" =>
                  /\ Len(body) = n + k + 2
                  /\ \A i \in 1..n : body[1 + i].kind = "day"
                                     /\ body[1 + i].nome = Some(menu[i].name)
                                     /\ body[1 + i].url = Some(menu[i].url)
                  /\ body[n + 2].kind = "header"
                  /\ \A i \in 1..k : body[n + 2 + i].kind = "bullet"
                                     /\ body[n + 2 + i].item = Some(unique_ingredients[i])
            /\ program = "static" =>
                  /\ CountKind(body, "header") = 0
                  /\ CountKind(body, "bullet") = 0
                  /\ \A i \in 1..n : body[2 + i].kind = "day"
                                     /\ body[2 + i].nome = Some(menu[i].name)

\* C7 witness: a 5-entry menu was composed with no ingredient, and the header
\* is there.
C7_Witness ==
    /\ program = "fast"
    /\ pc = "composed"
    /\ Len(menu) = MENU_SIZE
    /\ unique_ingredients = <<>>
    /\ CountKind(corpo[1], "header") = 1

\* C8: every ingredient parse_recipe outputs is trimmed and not empty.
C8_TrimmedNonEmpty ==
    (pc = "parsed" /\ parsed.ok) =>
        \A i \in 1..Len(parsed.ingredients) :
            /\ parsed.ingredients[i] # <<>>
            /\ Strip(parsed.ingredients[i]) = parsed.ingredients[i]

\* The successful futures among those the waiter still holds, in order.
WaitingOk == SelectSeq(finished_futures, LAMBDA u : fut[u].res.ok)

\* Each successful recipe handled so far is in the menu exactly once.
C9_NoLossNoDuplicate ==
    (program = "fast" /\ pc \in {"collecting"} \cup AfterBuild) =>
        /\ Distinct(MenuUrls(menu))
        /\ Range(MenuUrls(menu)) = Succeeded(fut) \cap yielded
        /\ \A i \in 1..Len(menu) : menu[i].name = fut[menu[i].url].res.name

\* The entries after the first n_pre follow the order of completion.
C9_LaterInCompletionOrder ==
    (program = "fast" /\ pc = "collecting") =>
        /\ n_pre <= Len(menu)
        /\ SubSeq(MenuUrls(menu), n_pre + 1, Len(menu)) \o WaitingOk = completed

\* compose puts entry i on the i-th weekday.
C9_Weekdays ==
    (program = "fast" /\ pc \in {"composed", "done"}) =>
        /\ DaysInOrder(corpo[1], Len(menu))
        /\ \A i \in 1..Len(menu) :
              corpo[1][1 + i] = DayLine(dias_semana[i], menu[i].name, Some(menu[i].url))

\* C9 as stated: for every interleaving the menu lists the successful recipes
\* exactly in the order in which their fetches completed, each once, and entry
\* i is on the i-th weekday.
C9_CompletionOrder ==
    /\ C9_NoLossNoDuplicate
    /\ C9_LaterInCompletionOrder
    /\ (program = "fast" /\ pc = "collecting") => pre_in_order
    /\ C9_Weekdays

\* C9 amended: each successful recipe is in the menu exactly once; those whose
\* fetch completes after as_completed was entered follow in completion order;
\* those already finished by then come first, in no particular order; entry i
\* is on the i-th weekday.
C9_OrderAfterEntry ==
    /\ C9_NoLossNoDuplicate
    /\ C9_LaterInCompletionOrder
    /\ C9_Weekdays

\* C9 witness: two fetches had finished before as_completed was entered and
\* were yielded against their completion order; the other three followed.
C9_Witness ==
    /\ program = "fast"
    /\ pc = "collecting"
    /\ n_pre = 2
    /\ ~pre_in_order
    /\ Len(menu) = MENU_SIZE
    /\ Len(completed) = 3

\* A cache holding a list of 1 to 4 URLs.
ShortCache(c) == c.kind = "list" /\ Len(c.urls) \in 1..(MENU_SIZE - 1)

\* C10: once the cache holds 1 to 4 URLs it never changes, every run returns it
\* without discovery and ends with the insufficient-candidates error, and no
\* menu is built and no delivery attempted from then on; the cache is only
\* ever rewritten over an absent, unparsable, non-list or empty-list cache.
C10_ShortCacheSticks ==
    [][/\ (program = "fast" /\ ShortCache(cache)) =>
            /\ cache' = cache
            /\ pc' \in {"idle", "get_urls", "have_urls", "crashed"}
            /\ pc = "get_urls" => /\ pc' = "have_urls"
                                  /\ urls' = cache.urls
                                  /\ ~listing_fetched'
            /\ pc = "have_urls" => pc' = "crashed" /\ error' = "RuntimeError"
            /\ fut' = <<>> /\ menu' = <<>> /\ corpo' = None /\ sent' = "none"
       /\ cache' # cache =>
            \/ cache.kind \in {"absent", "unparsable", "notlist"}
            \/ cache.kind = "list" /\ cache.urls = <<>>]_vars

\* C10 witness: a run that found 3 URLs in the cache, without discovery, has
\* ended with the error.
C10_Witness ==
    /\ program = "fast"
    /\ ShortCache(cache)
    /\ pc = "crashed"
    /\ error = "RuntimeError"
    /\ urls = cache.urls
    /\ ~listing_fetched

====
